---- MODULE Spec2Model ----
(***************************************************************************)
(* Model of src/blockchain/Blockchain.js: the Blockchain class (chain,     *)
(* pending pool, difficulty), its operations createTransaction, mine       *)
(* (proofOfWork + addBlock), chainIsValid, and the pure helpers getHash    *)
(* and constructMerkleTree.                                                *)
(*                                                                         *)
(* Text.  A JavaScript string is a sequence of atoms.  An atom is a record *)
(* [c, of]: a character atom has c = the character and of = <<>>; the atom *)
(* with c = "#" stands for the tail of an HMAC digest and carries in `of`  *)
(* the text that was hashed, so that two digests are equal exactly when    *)
(* their inputs are (the hash is treated as collision-free).  A digest is  *)
(* three leading hex characters followed by its tail atom; the leading     *)
(* characters are a deterministic function of the input (Mix), ranging     *)
(* over a reduced space of PrefixSpace values.                             *)
(*                                                                         *)
(* Values.  A JavaScript value that reaches string concatenation or        *)
(* Hmac.update is a record [ty, s]: ty is "undefined", "string", "number", *)
(* "array" or "TypeError" (the call raised), s is the text the value       *)
(* coerces to where that is not fixed by ty.                               *)
(***************************************************************************)
EXTENDS Integers, Sequences, FiniteSets

\* ------------------------------------------------------------------ bounds
MaxTx == 3          \* transactions created in one behaviour
MaxChain == 3       \* blocks in the chain (genesis included)
MaxNonce == 5       \* randomBytes(2) draws range over 0..MaxNonce
PrefixSpace == 4    \* distinct values of a digest's leading characters
StackLimit == 3     \* proofOfWork frames the call stack can hold
MaxTime == 0        \* Date.now() readings range over 0..MaxTime
MaxLeaves == 5      \* leaves of a tree built from given leaf digests
LeafKinds == 2      \* distinct leaf digests

Amounts == {10, 20}
Senders == {"A"}
Recipients == {"B"}

\* -------------------------------------------------------------------- text
Ch(c) == [c |-> c, of |-> <<>>]

Text(cs) == [i \in 1..Len(cs) |-> Ch(cs[i])]

HexDigits == <<"0","1","2","3","4","5","6","7","8","9","a","b","c","d","e","f">>

\* the characters that occur in hashed text; "#" is the tail of a digest
Alphabet == HexDigits \o <<"#","u","n","i","[","o","j","t"," ","O","]",",","-","N">>

\* the number a character contributes when a text is hashed
CharCode ==
    [c \in {Alphabet[i] : i \in 1..Len(Alphabet)} |->
        (CHOOSE i \in 1..Len(Alphabet) : Alphabet[i] = c) - 1]

RECURSIVE Hex(_, _)
\* Buffer.toString('hex') / digest('hex'): n as `width` lower-case hex digits
Hex(n, width) ==
    IF width = 0 THEN <<>>
    ELSE Hex(n \div 16, width - 1) \o <<Ch(HexDigits[(n % 16) + 1])>>

RECURSIVE MixFrom(_, _)
\* the text s absorbed, atom by atom, into the running value h
MixFrom(h, s) ==
    IF s = <<>> THEN h
    ELSE MixFrom((3 * h + CharCode[Head(s).c]) % PrefixSpace, Tail(s))

\* the value of the leading characters of the digest of text s
Mix(s) == MixFrom(0, s)

\* crypto.createHmac('sha256', "secret").update(s).digest('hex')
hmac(s) == Hex(Mix(s), 3) \o <<[c |-> "#", of |-> s]>>

\* String.prototype.startsWith
startsWith(s, p) == Len(s) >= Len(p) /\ SubSeq(s, 1, Len(p)) = p

\* ------------------------------------------------------------------ values
Undefined == [ty |-> "undefined", s |-> <<>>]
Str(s) == [ty |-> "string", s |-> s]
NaN == [ty |-> "number", s |-> Text(<<"N","a","N">>)]
TypeError == [ty |-> "TypeError", s |-> <<>>]

UndefinedText == Text(<<"u","n","d","e","f","i","n","e","d">>)
ObjectText == Text(<<"[","o","b","j","e","c","t"," ","O","b","j","e","c","t","]">>)

RECURSIVE JoinObjects(_)
\* Array.prototype.toString of an array of n plain objects
JoinObjects(n) ==
    IF n = 0 THEN <<>>
    ELSE IF n = 1 THEN ObjectText
    ELSE JoinObjects(n - 1) \o <<Ch(",")>> \o ObjectText

\* an array of transactions as a value
Arr(txs) == [ty |-> "array", s |-> JoinObjects(Len(txs))]

\* ToString, as applied by string concatenation
ToString(v) == IF v.ty = "undefined" THEN UndefinedText ELSE v.s

\* the binary + operator on two values
JsPlus(a, b) ==
    IF a.ty \in {"string", "array"} \/ b.ty \in {"string", "array"}
    THEN Str(ToString(a) \o ToString(b))
    ELSE NaN

\* Hmac.update(data).digest('hex'): data must be a string
Update(data) == IF data.ty = "string" THEN Str(hmac(data.s)) ELSE TypeError

\* ------------------------------------------------------------ transactions
\* uuid(): a version-4 UUID, five hex groups separated by "-"; the model
\* keeps one character per group and makes the n-th identifier generated
\* distinct from the earlier ones
uuid(n) ==
    LET d == Ch(HexDigits[(n % 16) + 1])
    IN  <<d, Ch("-"), d, Ch("-"), Ch("4"), Ch("-"), Ch("8"), Ch("-"), d>>

RECURSIVE split(_, _)
\* String.prototype.split(sep): the pieces of s between occurrences of sep
split(s, sep) ==
    IF \A i \in 1..Len(s) : s[i] # sep THEN <<s>>
    ELSE LET k == CHOOSE i \in 1..Len(s) :
                      s[i] = sep /\ \A j \in 1..(i - 1) : s[j] # sep
         IN  <<SubSeq(s, 1, k - 1)>> \o split(SubSeq(s, k + 1, Len(s)), sep)

RECURSIVE join(_)
\* Array.prototype.join() without an argument: the separator is ","
join(parts) ==
    IF parts = <<>> THEN <<>>
    ELSE IF Len(parts) = 1 THEN parts[1]
    ELSE parts[1] \o <<Ch(",")>> \o join(Tail(parts))

\* new Transaction(amount, sender, recipient), the n-th one created
Transaction(amount, sender, recipient, n) ==
    [amount |-> amount, sender |-> sender, recipient |-> recipient,
     tx_id |-> join(split(uuid(n), Ch("-")))]

\* mutant of TxHash: the leaf is the digest of the transaction's identifier
TxHashOfId(t) == Str(hmac(t.tx_id))

\* t.hash: undefined for an object without that property, as every
\* Transaction is
TxHash(t) == IF "hash" \in DOMAIN t THEN t.hash ELSE Undefined

\* ------------------------------------------------------------- merkle tree
RECURSIVE NextLevelDuplicating(_)
\* mutant of NextLevel: an unmatched last node is paired with a copy of itself
NextLevelDuplicating(level) ==
    IF level = <<>> THEN <<>>
    ELSE IF Len(level) = 1 THEN <<Update(JsPlus(level[1], level[1]))>>
    ELSE <<Update(JsPlus(level[1], level[2]))>>
             \o NextLevelDuplicating(SubSeq(level, 3, Len(level)))

RECURSIVE NextLevel(_)
\* one pass of the for loop over a level: consecutive pairs are hashed
\* together, an unmatched last node is hashed alone
NextLevel(level) ==
    IF level = <<>> THEN <<>>
    ELSE IF Len(level) = 1 THEN <<Update(level[1])>>
    ELSE <<Update(JsPlus(level[1], level[2]))>> \o NextLevel(SubSeq(level, 3, Len(level)))

RECURSIVE MerkleRoot(_)
\* the while loop and the return: levels are built until one node is left
MerkleRoot(level) ==
    IF Len(level) = 0 THEN Undefined
    ELSE IF Len(level) = 1 THEN level[1]
    ELSE LET temp == NextLevel(level)
         IN  IF \E i \in 1..Len(temp) : temp[i] = TypeError THEN TypeError
             ELSE MerkleRoot(temp)

constructMerkleTree(transactionList) ==
    MerkleRoot([i \in 1..Len(transactionList) |-> TxHash(transactionList[i])])

\* ------------------------------------------------------------------ blocks
\* getHash(prevHash, merkelRoot, nonce): prevHash and nonce are texts,
\* merkelRoot is a value
getHash(prevHash, merkelRoot, nonce) ==
    hmac(prevHash \o ToString(merkelRoot) \o nonce)

Block(index, transactions, prevHash, nonce, hash, merkelRoot, timestamp) ==
    [index |-> index, timestamp |-> timestamp, transactions |-> transactions,
     prevHash |-> prevHash, hash |-> hash, nonce |-> nonce,
     merkelRoot |-> merkelRoot]

\* mutant of tipHash: reads the first block instead of the last
tipHashFirst(ch) == IF Len(ch) # 0 THEN ch[1].hash ELSE Text(<<"0">>)

\* the hash of the chain tip, "0" for an empty chain
tipHash(ch) == IF Len(ch) # 0 THEN ch[Len(ch)].hash ELSE Text(<<"0">>)

\* mutant of newBlock: seals the transaction array, as chainIsValid does,
\* in place of the commitment it stores
newBlockSealsTransactions(ch, pending, nonce, timestamp) ==
    LET index == Len(ch)
        prevHash == tipHash(ch)
        merkelRoot == constructMerkleTree(pending)
        hash == getHash(prevHash, Arr(pending), nonce)
    IN  Block(index, pending, prevHash, nonce, hash, merkelRoot, timestamp)

\* mutant of newBlock: the index counts from one
newBlockOneBased(ch, pending, nonce, timestamp) ==
    LET index == Len(ch) + 1
        prevHash == tipHash(ch)
        merkelRoot == constructMerkleTree(pending)
        hash == getHash(prevHash, merkelRoot, nonce)
    IN  Block(index, pending, prevHash, nonce, hash, merkelRoot, timestamp)

\* the block addBlock(nonce) builds from the chain and the pending pool
newBlock(ch, pending, nonce, timestamp) ==
    LET index == Len(ch)
        prevHash == tipHash(ch)
        merkelRoot == constructMerkleTree(pending)
        hash == getHash(prevHash, merkelRoot, nonce)
    IN  Block(index, pending, prevHash, nonce, hash, merkelRoot, timestamp)

\* this.merkelRoot read by proofOfWork: a property no code assigns
thisMerkelRoot == Undefined

\* crypto.randomBytes(2).toString('hex') for the drawn value v
nonceText(v) == Hex(v, 4)

\* mutant of powAccepts: tests the candidate itself, not its seal
powAcceptsNonce(ch, difficulty, nonce) == startsWith(nonce, difficulty)

\* proofOfWork's test of one candidate nonce
powAccepts(ch, difficulty, nonce) ==
    startsWith(getHash(tipHash(ch), thisMerkelRoot, nonce), difficulty)

RECURSIVE validFrom(_, _)
\* the loop of chainIsValid from (one-based) position i on
validFrom(ch, i) ==
    IF i > Len(ch) THEN TRUE
    ELSE IF i = 1 /\ ch[i].hash # getHash(Text(<<"0">>), Arr(<<>>), Text(<<"0">>))
    THEN FALSE
    ELSE IF i > 1 /\ ch[i].hash # getHash(ch[i-1].hash, Arr(ch[i].transactions), ch[i].nonce)
    THEN FALSE
    ELSE IF i > 1 /\ ch[i].prevHash # ch[i-1].hash
    THEN FALSE
    ELSE validFrom(ch, i + 1)

chainIsValid(ch) == validFrom(ch, 1)

\* ------------------------------------------------------------------- state
VARIABLES
    chain,                  \* this.chain
    pendingTransactions,    \* this.pendingTransactions
    difficulty,             \* this.difficulty
    pc,                     \* "idle", or "pow" while mine() runs proofOfWork
    depth,                  \* proofOfWork frames on the call stack
    nextId,                 \* number of identifiers uuid() has generated
    submitted,              \* history: every transaction created, in order
    raised,                 \* history: what the latest mine() call raised
    lastMine,               \* history: the commitment values of the latest mine()
    valid,                  \* history: result of chainIsValid() on this chain
    mutated,                \* history: external mutation of a block
    leaves,                 \* leaf digests handed to constructMerkleTree
    root                    \* what constructMerkleTree returned for them

vars == <<chain, pendingTransactions, difficulty, pc, depth, nextId,
          submitted, raised, lastMine, valid, mutated, leaves, root>>

NoValue == [ty |-> "none", s |-> <<>>]

\* new Blockchain(): addBlock('0') on the empty chain, then the difficulty
Constructed ==
    /\ \E timestamp \in 0..MaxTime :
           chain = <<newBlock(<<>>, <<>>, Text(<<"0">>), timestamp)>>
    /\ pendingTransactions = <<>>
    /\ difficulty = Text(<<"0","0","0">>)
    /\ pc = "idle"
    /\ depth = 0
    /\ nextId = 0
    /\ submitted = <<>>
    /\ raised = "none"
    /\ lastMine = [pow |-> NoValue, add |-> NoValue]
    /\ valid = "none"
    /\ mutated = "no"

\* a constructed Blockchain; constructMerkleTree has not been called directly
Init ==
    /\ Constructed
    /\ leaves = <<>>
    /\ root = NoValue

\* what an API call does to the record of external mutation
Aged == IF mutated = "no" THEN "no" ELSE "old"

\* mutant of createTransaction: the pool is still the array the last
\* block holds as its transactions, so the push shows up in that block
createTransactionAliased(amount, sender, recipient) ==
    /\ pc = "idle"
    /\ nextId < MaxTx
    /\ LET tx == Transaction(amount, sender, recipient, nextId)
       IN  /\ pendingTransactions' = Append(pendingTransactions, tx)
           /\ submitted' = Append(submitted, tx)
           /\ chain' = [chain EXCEPT ![Len(chain)].transactions = Append(@, tx)]
    /\ nextId' = nextId + 1
    /\ mutated' = Aged
    /\ UNCHANGED <<leaves, root, difficulty, pc, depth, raised, lastMine, valid>>

createTransaction(amount, sender, recipient) ==
    /\ pc = "idle"
    /\ nextId < MaxTx
    /\ LET tx == Transaction(amount, sender, recipient, nextId)
       IN  /\ pendingTransactions' = Append(pendingTransactions, tx)
           /\ submitted' = Append(submitted, tx)
    /\ nextId' = nextId + 1
    /\ mutated' = Aged
    /\ UNCHANGED <<leaves, root, chain, difficulty, pc, depth, raised, lastMine, valid>>

\* mine() up to its call of proofOfWork
mine ==
    /\ pc = "idle"
    /\ Len(chain) < MaxChain
    /\ pc' = "pow"
    /\ depth' = 1
    /\ raised' = "none"
    /\ mutated' = Aged
    /\ UNCHANGED <<leaves, root, chain, pendingTransactions, difficulty, nextId, submitted,
                   lastMine, valid>>

\* proofOfWork draws a candidate that fails the test and calls itself
proofOfWorkRetry(v) ==
    /\ pc = "pow"
    /\ ~powAccepts(chain, difficulty, nonceText(v))
    /\ depth < StackLimit
    /\ depth' = depth + 1
    /\ UNCHANGED <<leaves, root, chain, pendingTransactions, difficulty, pc, nextId,
                   submitted, raised, lastMine, valid, mutated>>

\* the recursive call finds the call stack full: RangeError leaves mine()
proofOfWorkOverflow(v) ==
    /\ pc = "pow"
    /\ ~powAccepts(chain, difficulty, nonceText(v))
    /\ depth = StackLimit
    /\ pc' = "idle"
    /\ depth' = 0
    /\ raised' = "RangeError"
    /\ UNCHANGED <<leaves, root, chain, pendingTransactions, difficulty, nextId, submitted,
                   lastMine, valid, mutated>>

\* mutant of addBlock: the pending pool is not reset
addBlockKeepsPool(v, timestamp) ==
    /\ pc = "pow"
    /\ powAccepts(chain, difficulty, nonceText(v))
    /\ constructMerkleTree(pendingTransactions) # TypeError
    /\ chain' = Append(chain, newBlock(chain, pendingTransactions, nonceText(v), timestamp))
    /\ lastMine' = [pow |-> thisMerkelRoot,
                    add |-> constructMerkleTree(pendingTransactions)]
    /\ pc' = "idle"
    /\ depth' = 0
    /\ valid' = "none"
    /\ UNCHANGED <<leaves, root, pendingTransactions, difficulty, nextId, submitted, raised, mutated>>

\* proofOfWork returns the candidate v; addBlock appends the block
addBlock(v, timestamp) ==
    /\ pc = "pow"
    /\ powAccepts(chain, difficulty, nonceText(v))
    /\ constructMerkleTree(pendingTransactions) # TypeError
    /\ chain' = Append(chain, newBlock(chain, pendingTransactions, nonceText(v), timestamp))
    /\ pendingTransactions' = <<>>
    /\ lastMine' = [pow |-> thisMerkelRoot,
                    add |-> constructMerkleTree(pendingTransactions)]
    /\ pc' = "idle"
    /\ depth' = 0
    /\ valid' = "none"
    /\ UNCHANGED <<leaves, root, difficulty, nextId, submitted, raised, mutated>>

\* mutant of addBlockRaises: the pool is reset before the commitment is built
addBlockRaisesAfterReset(v) ==
    /\ pc = "pow"
    /\ powAccepts(chain, difficulty, nonceText(v))
    /\ constructMerkleTree(pendingTransactions) = TypeError
    /\ raised' = "TypeError"
    /\ lastMine' = [pow |-> thisMerkelRoot, add |-> TypeError]
    /\ pendingTransactions' = <<>>
    /\ pc' = "idle"
    /\ depth' = 0
    /\ UNCHANGED <<leaves, root, chain, difficulty, nextId, submitted, valid, mutated>>

\* proofOfWork returns the candidate v; constructMerkleTree raises in addBlock
addBlockRaises(v) ==
    /\ pc = "pow"
    /\ powAccepts(chain, difficulty, nonceText(v))
    /\ constructMerkleTree(pendingTransactions) = TypeError
    /\ raised' = "TypeError"
    /\ lastMine' = [pow |-> thisMerkelRoot, add |-> TypeError]
    /\ pc' = "idle"
    /\ depth' = 0
    /\ UNCHANGED <<leaves, root, chain, pendingTransactions, difficulty, nextId, submitted,
                   valid, mutated>>

isValid ==
    /\ pc = "idle"
    /\ valid' = IF chainIsValid(chain) THEN "true" ELSE "false"
    /\ UNCHANGED <<leaves, root, chain, pendingTransactions, difficulty, pc, depth, nextId,
                   submitted, raised, lastMine, mutated>>

Next ==
    \/ \E a \in Amounts, s \in Senders, r \in Recipients : createTransaction(a, s, r)
    \/ mine
    \/ \E v \in 0..MaxNonce : proofOfWorkRetry(v)
    \/ \E v \in 0..MaxNonce : proofOfWorkOverflow(v)
    \/ \E v \in 0..MaxNonce, t \in 0..MaxTime : addBlock(v, t)
    \/ \E v \in 0..MaxNonce : addBlockRaises(v)
    \/ isValid

Spec == Init /\ [][Next]_vars

\* ------------------------------------------------------- external mutation
\* the values a caller may write into a field of an appended block
FieldValues(field) ==
    CASE field = "hash" ->
             {getHash(Text(<<"0">>), Arr(<<>>), Text(<<"0">>)), Text(<<"0">>)}
      [] field = "prevHash" -> {Text(<<"0">>)}
      [] field = "nonce" -> {nonceText(0), nonceText(MaxNonce)}
      [] field = "merkelRoot" -> {Undefined, Str(<<>>)}
      [] field = "index" -> {0, 1}
      [] field = "timestamp" -> 0..MaxTime

BlockFields == {"hash", "prevHash", "nonce", "merkelRoot", "index", "timestamp"}

\* a caller assigns chain[i][field] = value (i one-based), without resealing
tamperField(i, field, value) ==
    /\ pc = "idle"
    /\ mutated = "no"
    /\ i \in 1..Len(chain)
    /\ chain[i][field] # value
    /\ chain' = [chain EXCEPT ![i][field] = value]
    /\ mutated' = "just"
    /\ valid' = "none"
    /\ UNCHANGED <<leaves, root, pendingTransactions, difficulty, pc, depth, nextId,
                   submitted, raised, lastMine>>

\* a caller assigns chain[i].transactions[j].amount = amount
tamperAmount(i, j, amount) ==
    /\ pc = "idle"
    /\ mutated = "no"
    /\ i \in 1..Len(chain)
    /\ j \in 1..Len(chain[i].transactions)
    /\ chain[i].transactions[j].amount # amount
    /\ chain' = [chain EXCEPT ![i].transactions[j].amount = amount]
    /\ mutated' = "just"
    /\ valid' = "none"
    /\ UNCHANGED <<leaves, root, pendingTransactions, difficulty, pc, depth, nextId,
                   submitted, raised, lastMine>>

\* a caller empties the chain (b.chain = [])
tamperClear ==
    /\ pc = "idle"
    /\ mutated = "no"
    /\ chain # <<>>
    /\ chain' = <<>>
    /\ mutated' = "cleared"
    /\ valid' = "none"
    /\ UNCHANGED <<leaves, root, pendingTransactions, difficulty, pc, depth, nextId,
                   submitted, raised, lastMine>>

NextTamper ==
    \/ Next
    \/ tamperClear
    \/ \E i \in 1..MaxChain, field \in BlockFields :
           \E value \in FieldValues(field) : tamperField(i, field, value)
    \/ \E i \in 1..MaxChain, j \in 1..MaxTx, amount \in Amounts :
           tamperAmount(i, j, amount)

SpecTamper == Init /\ [][NextTamper]_vars

\* ------------------------------------------- commitment of given leaves
\* the digests a caller's objects carry in their hash property
LeafDigests == {hmac(Text(<<HexDigits[k]>>)) : k \in 1..LeafKinds}

\* a constructed Blockchain and a non-empty sequence of leaf digests
InitMerkle ==
    /\ Constructed
    /\ \E n \in 1..MaxLeaves : leaves \in [1..n -> LeafDigests]
    /\ root = NoValue

\* a caller hands constructMerkleTree objects whose hash is a leaf digest
constructMerkleTreeCall ==
    /\ root = NoValue
    /\ root' = constructMerkleTree([i \in 1..Len(leaves) |-> [hash |-> Str(leaves[i])]])
    /\ UNCHANGED <<chain, pendingTransactions, difficulty, pc, depth, nextId,
                   submitted, raised, lastMine, valid, mutated, leaves>>

NextMerkle == constructMerkleTreeCall

SpecMerkle == InitMerkle /\ [][NextMerkle]_vars

\* -------------------------------------------------------------- properties
\* the state right after construction: nothing submitted, no mine() begun
Fresh ==
    /\ pc = "idle" /\ Len(chain) = 1 /\ submitted = <<>>
    /\ raised = "none" /\ mutated = "no"

\* C1: isValid() called on a freshly constructed Blockchain returns true
FreshChainIsValid == (Fresh /\ valid # "none") => valid = "true"

\* C2: after at least one completed mine(), with only createTransaction and
\* mine calls and no external mutation, isValid() returns true
MinedChainIsValid ==
    (mutated = "no" /\ Len(chain) > 1 /\ valid # "none") => valid = "true"

\* C3: every block appended by mine() stores a hash with the difficulty as
\* a prefix, and that hash is the seal of the block's own prevHash,
\* commitment and nonce
MinedHashMeetsDifficulty ==
    \A i \in 2..Len(chain) :
        /\ startsWith(chain[i].hash, difficulty)
        /\ startsWith(getHash(chain[i].prevHash, chain[i].merkelRoot, chain[i].nonce),
                      difficulty)

\* a block mined from the empty pool and one mined from a pool of one
MinedEmptyAndSingle ==
    /\ Len(chain) = 3
    /\ chain[2].transactions = <<>>
    /\ Len(chain[3].transactions) = 1

\* C4: within one mine(), the commitment the nonce search seals against is
\* the value addBlock computes over the pending pool
SearchSealsBlockCommitment ==
    lastMine.pow # NoValue => lastMine.pow = lastMine.add

\* C5: after one field of an appended block is changed without resealing,
\* the next isValid() returns false
TamperIsDetected == (mutated = "just" /\ valid # "none") => valid = "false"

RECURSIVE storedFieldsValidFrom(_, _)
\* validity as recomputed from each block's stored commitment field, the
\* empty commitment contributing the empty string
storedFieldsValidFrom(ch, i) ==
    IF i > Len(ch) THEN TRUE
    ELSE IF i = 1
    THEN /\ ch[1].hash = hmac(Text(<<"0">>) \o <<>> \o Text(<<"0">>))
         /\ storedFieldsValidFrom(ch, 2)
    ELSE /\ ch[i].hash = hmac(ch[i-1].hash \o ToString(ch[i].merkelRoot) \o ch[i].nonce)
         /\ ch[i].prevHash = ch[i-1].hash
         /\ storedFieldsValidFrom(ch, i + 1)

\* C6: isValid() returns true exactly when the genesis hash is the seal of
\* ("0", empty commitment, "0") and every later block's hash is the seal of
\* the predecessor's hash, its stored commitment and its nonce, and its
\* prevHash is the predecessor's hash
ValidIffStoredFieldsValid ==
    valid # "none" => (valid = "true" <=> storedFieldsValidFrom(chain, 1))

\* C7: every block's stored hash is getHash of that block's stored
\* prevHash, stored commitment and stored nonce
HashIsSealOfOwnFields ==
    \A i \in 1..Len(chain) :
        chain[i].hash = getHash(chain[i].prevHash, chain[i].merkelRoot, chain[i].nonce)

\* two mined blocks, the later one carrying a transaction
TwoMinedOneLoaded ==
    /\ Len(chain) = 3
    /\ chain[3].transactions # <<>>
    /\ mutated = "no"

\* C8: for every i > 0, chain[i].prevHash equals chain[i-1].hash
PrevHashLinks ==
    \A i \in 2..Len(chain) : chain[i].prevHash = chain[i-1].hash

\* two blocks have been linked behind the genesis block
TwoLinksMade == Len(chain) = 3 /\ pc = "idle" /\ mutated = "no"

RECURSIVE blockTransactions(_)
\* the transactions of all blocks, in chain order
blockTransactions(ch) ==
    IF ch = <<>> THEN <<>>
    ELSE blockTransactions(SubSeq(ch, 1, Len(ch) - 1)) \o ch[Len(ch)].transactions

\* C9: a completed mine() moves the pool, in order, into the new block and
\* leaves the pool empty; every submitted transaction is in exactly one
\* place, the blocks followed by the pool holding them in submission order
PoolMovesIntoBlock ==
    /\ [](blockTransactions(chain) \o pendingTransactions = submitted)
    /\ [][Len(chain') > Len(chain) =>
            /\ chain'[Len(chain')].transactions = pendingTransactions
            /\ pendingTransactions' = <<>>]_vars

\* one transaction went into the first mined block, another was submitted
\* later and went into the second
MinedTwiceWithLoad ==
    /\ Len(chain) = 3
    /\ Len(chain[2].transactions) = 1
    /\ Len(chain[3].transactions) = 1
    /\ pendingTransactions = <<>>

\* C10: every mine() completes without raising and appends exactly one
\* block whose index is the chain length before the call
MineNeverRaises ==
    /\ raised = "none"
    /\ \A i \in 1..Len(chain) : chain[i].index = i - 1

\* C11: an empty transaction set is sealed everywhere with the one marker
\* chainIsValid uses for genesis, which contributes the empty string: the
\* genesis block and every block mined from an empty pool carry the seal of
\* their prevHash, that marker and their nonce
EmptyCommitmentCanonical ==
    \A i \in 1..Len(chain) :
        chain[i].transactions = <<>> =>
            /\ ToString(chain[i].merkelRoot) = <<>>
            /\ chain[i].hash = getHash(chain[i].prevHash, Arr(<<>>), chain[i].nonce)

\* the content of a transaction that a commitment is meant to cover
Content(txs) ==
    [i \in 1..Len(txs) |->
        <<txs[i].amount, txs[i].sender, txs[i].recipient>>]

\* C12: two non-empty transaction sequences that differ at some position
\* have different commitments
CommitmentSeparatesContent ==
    \A i, j \in 2..Len(chain) :
        (/\ chain[i].transactions # <<>>
         /\ chain[j].transactions # <<>>
         /\ Content(chain[i].transactions) # Content(chain[j].transactions))
        => chain[i].merkelRoot # chain[j].merkelRoot

\* the genesis block as the constructor builds it, the empty commitment
\* being the value constructMerkleTree returns for no transactions
IsGenesis(b) ==
    /\ b.index = 0
    /\ b.transactions = <<>>
    /\ b.prevHash = Text(<<"0">>)
    /\ b.nonce = Text(<<"0">>)
    /\ b.hash = getHash(Text(<<"0">>), constructMerkleTree(<<>>), Text(<<"0">>))

AppendOnly ==
    [][/\ Len(chain') \in {Len(chain), Len(chain) + 1}
       /\ SubSeq(chain', 1, Len(chain)) = chain
       /\ (pendingTransactions' # pendingTransactions =>
              \/ /\ Len(pendingTransactions') = Len(pendingTransactions) + 1
                 /\ SubSeq(pendingTransactions', 1, Len(pendingTransactions))
                        = pendingTransactions
                 /\ chain' = chain
              \/ /\ pendingTransactions' = <<>>
                 /\ Len(chain') = Len(chain) + 1)
       /\ ((valid' # valid /\ valid' # "none") =>
              chain' = chain /\ pendingTransactions' = pendingTransactions)
      ]_vars

\* a transaction was submitted after a completed mine() and the validator
\* has run on that chain
SubmittedAfterMine ==
    /\ Len(chain) = 2
    /\ pendingTransactions # <<>>
    /\ valid # "none"

\* C17: the call-stack depth of the nonce search stays at one frame however
\* many candidates are rejected
SearchDepthConstant == pc = "pow" => depth = 1

\* a chain whose transactions carry other identifiers, all else equal
Relabel(txs) ==
    [i \in 1..Len(txs) |->
        [txs[i] EXCEPT !.tx_id = join(split(uuid(i + MaxTx), Ch("-")))]]

RelabelChain(ch) ==
    [i \in 1..Len(ch) |-> [ch[i] EXCEPT !.transactions = Relabel(@)]]

\* C18: commitments, hashes and validity do not depend on transaction
\* identifiers: recomputed on the same transactions under other identifiers,
\* every block's commitment and hash and the result of chainIsValid are the
\* same
IdsDoNotInfluence ==
    /\ \A i \in 1..Len(chain) :
          LET commitment == constructMerkleTree(Relabel(chain[i].transactions))
          IN  /\ commitment = chain[i].merkelRoot
              /\ getHash(chain[i].prevHash, commitment, chain[i].nonce) = chain[i].hash
    /\ chainIsValid(RelabelChain(chain)) = chainIsValid(chain)
    /\ valid # "none" => (valid = "true" <=> chainIsValid(RelabelChain(chain)))

\* a block that carries a transaction has been mined and validated
LoadedBlockValidated ==
    /\ Len(chain) >= 2
    /\ chain[2].transactions # <<>>
    /\ valid # "none"

\* C19: every nonce search ends by returning a candidate, and only one whose
\* seal met the difficulty
SearchReturnsAccepted ==
    /\ raised # "RangeError"
    /\ \A i \in 2..Len(chain) :
          startsWith(getHash(chain[i-1].hash, thisMerkelRoot, chain[i].nonce), difficulty)

\* C20: a mine() that does not complete leaves chain and pool as they were
\* before the call: neither the steps of the search nor the step that
\* raises change them
FailedMineChangesNothing ==
    [][(pc' = "pow" \/ (pc = "pow" /\ raised' # "none")) =>
          (chain' = chain /\ pendingTransactions' = pendingTransactions)]_vars

\* a mine() over a pool of two has raised, the pool still holding both
MineRaisedOverPair ==
    /\ raised = "TypeError"
    /\ pc = "idle"
    /\ Len(pendingTransactions) = 2

\* C16: for a chain without any block, isValid() reports false
EmptyChainIsInvalid == (chain = <<>> /\ valid # "none") => valid = "false"

\* the parents of a level in the reference construction: node k is the hash
\* of the concatenated digests of nodes 2k-1 and 2k, or of node 2k-1 alone
\* when the level ends there
RefLevel(l) ==
    [k \in 1..((Len(l) + 1) \div 2) |->
        IF 2 * k <= Len(l) THEN hmac(l[2 * k - 1] \o l[2 * k])
        ELSE hmac(l[2 * k - 1])]

RECURSIVE RefRoot(_)
RefRoot(l) == IF Len(l) = 1 THEN l[1] ELSE RefRoot(RefLevel(l))

\* C15: for n >= 1 leaf digests constructMerkleTree returns the root of the
\* reference bottom-up construction, an unmatched last node being hashed
\* alone; a single leaf is returned as it is
MerkleMatchesReference == root # NoValue => root = Str(RefRoot(leaves))

\* a tree over five leaves was built: levels of 5, 3, 2 and 1 nodes
FiveLeavesCommitted == root # NoValue /\ Len(leaves) = 5

====
